---- MODULE Spec2Model ----
(***************************************************************************)
(* imx6_ddrstat: sampling of the i.MX6 MMDC profiling counters.            *)
(*                                                                         *)
(* The model has the program (main, perf_init, mmdc_init, perf_start,      *)
(* perf_stop, mmdc_read, perf_print, perf_close, setup_axi_filter) and the *)
(* device it drives: per controller the control register MADPCR0, the      *)
(* filter register MADPCR1 and the six statistics registers MADPSR0..5.    *)
(* Every access to a volatile register is one step, so the device may      *)
(* count between any two accesses of the program.                          *)
(*                                                                         *)
(* Three specifications:                                                   *)
(*   Spec       the process as main() runs it, from the command line on;   *)
(*   SpecOps    the operations perf_init/perf_start/perf_stop/perf_print/  *)
(*              perf_close called in any order (their contract);           *)
(*   SpecFilter setup_axi_filter applied to a name.                        *)
(***************************************************************************)
EXTENDS Integers, Sequences, FiniteSets, TLC

VARIABLES
    pc,          \* position of the program
    driver,      \* "main": main() runs; "ops": operations in any order; "filter"
    argv,        \* the command line, without argv[0]
    master,      \* the argument of setup_axi_filter (SpecFilter)
    pretty,      \* static bool pretty
    delay,       \* main's local delay
    axi_id,      \* static unsigned short axi_id
    axi_id_mask, \* static unsigned short axi_id_mask
    exit_code,   \* the process' exit status, -1 while it runs
    fd,          \* perf_init's descriptor of /dev/mem: "none", "open", "closed"
    err,         \* perf_init's result
    mmdc,        \* static void *mmdc0, *mmdc1: "NULL" or "mem"
    window,      \* each register window: "unmapped", "mapped", "released"
    cur,         \* the controller the running operation is at
    tmp,         \* the value loaded by the read half of a |= or &=
    k,           \* mmdc_read: the next statistics register to read
    mmdc_end,    \* static struct mmdc_stats mmdc0_end, mmdc1_end
    cr,          \* device: MADPCR0 of each controller
    fsel,        \* device: MADPCR1 of each controller
    cnt,         \* device: MADPSR0..5 of each controller
    ovfl,        \* stdout: the "overflow N!" lines of the latest perf_stop
    line,        \* stdout: the line of the latest perf_print, as its parts
    ticks,       \* clock cycles the device has run so far (bounded)
    \* history variables, read by the properties only
    wlog,        \* the register writes of mmdc_init, in order
    interval,    \* what the device saw between start's release and stop's freeze
    measuring,   \* the controller is between start's release and stop's freeze
    wrapped,     \* the cycle counter wrapped in the current interval
    started,     \* perf_start has released the controller at least once
    restarted,   \* the latest perf_start reset a running controller that had counted
    stored       \* mmdc_read has stored into the controller's snapshot

vars == <<pc, driver, argv, master, pretty, delay, axi_id, axi_id_mask, exit_code,
          fd, err, mmdc, window, cur, tmp, k, mmdc_end, cr, fsel, cnt, ovfl,
          line, ticks, wlog, interval, measuring, wrapped, started, restarted,
          stored>>

progVars == <<pc, driver, argv, master, pretty, delay, axi_id, axi_id_mask, exit_code,
              fd, err, mmdc, window, cur, tmp, k, mmdc_end, ovfl, line>>

(***************************************************************************)
(* Bounds of the model.                                                    *)
(***************************************************************************)
\* the statistics registers are 32 bits wide; the model counts modulo this
CounterMod == 3
\* clock cycles the device runs while it is observed
MaxTicks == 3
\* bytes moved by one access of the modelled traffic
AccessBytes == 2

Controllers == {0, 1}

(***************************************************************************)
(* Register bits (src lines 50-53) and 4-bit arithmetic on MADPCR0.        *)
(***************************************************************************)
MADPCR0_DBG_EN == 1
MADPCR0_DBG_RST == 2
MADPCR0_PRF_FRZ == 4
MADPCR0_CYC_OVF == 8
MADPCR1_PRF_AXI_ID_SHIFT == 0
MADPCR1_PRF_AXI_ID_MASK_SHIFT == 16

Pow2(n) == IF n = 0 THEN 1 ELSE IF n = 1 THEN 2 ELSE IF n = 2 THEN 4
           ELSE IF n = 3 THEN 8 ELSE IF n = 16 THEN 65536 ELSE 0

Bit(v, b) == (v \div Pow2(b)) % 2

Max2(a, b) == IF a >= b THEN a ELSE b

\* a | b on the low four bits
BitOr(a, b) ==
    Max2(Bit(a, 0), Bit(b, 0)) + 2 * Max2(Bit(a, 1), Bit(b, 1))
    + 4 * Max2(Bit(a, 2), Bit(b, 2)) + 8 * Max2(Bit(a, 3), Bit(b, 3))

\* a & ~b on the low four bits
BitAndNot(a, b) ==
    Bit(a, 0) * (1 - Bit(b, 0)) + 2 * Bit(a, 1) * (1 - Bit(b, 1))
    + 4 * Bit(a, 2) * (1 - Bit(b, 2)) + 8 * Bit(a, 3) * (1 - Bit(b, 3))

\* a & b != 0 for a single-bit mask b
Has(a, b) == BitAndNot(a, b) # a

(***************************************************************************)
(* The device.                                                             *)
(***************************************************************************)
Regs == {"MADPSR0", "MADPSR1", "MADPSR2", "MADPSR3", "MADPSR4", "MADPSR5"}

ZeroRegs == [r \in Regs |-> 0]

ZeroStats == [cycles |-> 0, busy_cycles |-> 0, read_accesses |-> 0,
              write_accesses |-> 0, read_bytes |-> 0, write_bytes |-> 0]

\* what one clock cycle is for a controller
TrafficKinds == {"idle", "read", "write"}

\* the counters run with DBG_EN set, and DBG_RST and PRF_FRZ clear
Counting(c) ==
    /\ Has(c, MADPCR0_DBG_EN)
    /\ ~Has(c, MADPCR0_DBG_RST)
    /\ ~Has(c, MADPCR0_PRF_FRZ)

\* the statistics registers after one clock cycle of the given kind
TickRegs(r, kind) ==
    [r EXCEPT
        !["MADPSR0"] = (@ + 1) % CounterMod,
        !["MADPSR1"] = IF kind = "idle" THEN @ ELSE (@ + 1) % CounterMod,
        !["MADPSR2"] = IF kind = "read" THEN (@ + 1) % CounterMod ELSE @,
        !["MADPSR3"] = IF kind = "write" THEN (@ + 1) % CounterMod ELSE @,
        !["MADPSR4"] = IF kind = "read" THEN (@ + AccessBytes) % CounterMod ELSE @,
        !["MADPSR5"] = IF kind = "write" THEN (@ + AccessBytes) % CounterMod ELSE @]

\* the cycle counter wraps in the next clock cycle
Wraps(r) == r["MADPSR0"] = CounterMod - 1

\* MADPCR0 after the program stores v: DBG_EN, DBG_RST and PRF_FRZ are taken
\* from v; CYC_OVF is cleared by writing 1 to it and kept by writing 0
CtrlAfterWrite(old, v) ==
    BitOr(BitAndNot(v, MADPCR0_CYC_OVF),
          IF Has(v, MADPCR0_CYC_OVF) THEN 0
          ELSE old - BitAndNot(old, MADPCR0_CYC_OVF))

\* MADPSR0..5 after the program stores v in MADPCR0: DBG_RST zeroes them
RegsAfterWrite(old, v) == IF Has(v, MADPCR0_DBG_RST) THEN ZeroRegs ELSE old

(***************************************************************************)
(* The filter catalog and setup_axi_filter.                                *)
(***************************************************************************)
\* Table 43-8, i.MX 6Dual/6Quad AXI ID; the table's binary literals in decimal
filters == <<
    [name |-> "arm-s0", axi_id_mask |-> 14343, axi_id |-> 0],
    [name |-> "arm-s1", axi_id_mask |-> 14343, axi_id |-> 1],
    [name |-> "ipu1", axi_id_mask |-> 16359, axi_id |-> 4],
    [name |-> "ipu1-0", axi_id_mask |-> 16383, axi_id |-> 4],
    [name |-> "ipu1-1", axi_id_mask |-> 16383, axi_id |-> 12],
    [name |-> "ipu1-2", axi_id_mask |-> 16383, axi_id |-> 20],
    [name |-> "ipu1-3", axi_id_mask |-> 16383, axi_id |-> 28],
    [name |-> "ipu2", axi_id_mask |-> 16359, axi_id |-> 5],
    [name |-> "ipu2-0", axi_id_mask |-> 16383, axi_id |-> 5],
    [name |-> "ipu2-1", axi_id_mask |-> 16383, axi_id |-> 13],
    [name |-> "ipu2-2", axi_id_mask |-> 16383, axi_id |-> 21],
    [name |-> "ipu2-3", axi_id_mask |-> 16383, axi_id |-> 29],
    [name |-> "gpu3d-a", axi_id_mask |-> 15423, axi_id |-> 2],
    [name |-> "gpu2d-a", axi_id_mask |-> 15423, axi_id |-> 10],
    [name |-> "vdoa", axi_id_mask |-> 16191, axi_id |-> 18],
    [name |-> "openvg", axi_id_mask |-> 15423, axi_id |-> 34],
    [name |-> "hdmi", axi_id_mask |-> 16383, axi_id |-> 282],
    [name |-> "sdma-brst", axi_id_mask |-> 16383, axi_id |-> 346],
    [name |-> "sdma-per", axi_id_mask |-> 16383, axi_id |-> 410],
    [name |-> "caam", axi_id_mask |-> 1023, axi_id |-> 26],
    [name |-> "usb", axi_id_mask |-> 13311, axi_id |-> 90],
    [name |-> "enet", axi_id_mask |-> 16383, axi_id |-> 154],
    [name |-> "hsi", axi_id_mask |-> 16383, axi_id |-> 218],
    [name |-> "usdhc1", axi_id_mask |-> 16383, axi_id |-> 474],
    [name |-> "gpu3d-b", axi_id_mask |-> 15423, axi_id |-> 3],
    [name |-> "gpu2d-b", axi_id_mask |-> 15423, axi_id |-> 11],
    [name |-> "vpu-prime", axi_id_mask |-> 15423, axi_id |-> 19],
    [name |-> "pcie", axi_id_mask |-> 14399, axi_id |-> 27],
    [name |-> "dap", axi_id_mask |-> 16383, axi_id |-> 35],
    [name |-> "apbh-dma", axi_id_mask |-> 16383, axi_id |-> 163],
    [name |-> "bch40", axi_id_mask |-> 1023, axi_id |-> 99],
    [name |-> "sata", axi_id_mask |-> 16383, axi_id |-> 227],
    [name |-> "mlb150", axi_id_mask |-> 16383, axi_id |-> 291],
    [name |-> "usdhc2", axi_id_mask |-> 16383, axi_id |-> 355],
    [name |-> "usdhc3", axi_id_mask |-> 16383, axi_id |-> 419],
    [name |-> "usdhc4", axi_id_mask |-> 16383, axi_id |-> 483] >>

FilterNames == {filters[i].name : i \in 1..Len(filters)}

\* the pass-all filter of the fallback
PassAll == [axi_id |-> 0, axi_id_mask |-> 0]

\* the loop of setup_axi_filter from entry i on: the first entry whose name
\* equals master sets the pair; past the last entry the pair is zeroed
RECURSIVE ScanFilters(_, _)
ScanFilters(i, name) ==
    IF i > Len(filters) THEN PassAll
    ELSE IF filters[i].name = name
         THEN [axi_id |-> filters[i].axi_id, axi_id_mask |-> filters[i].axi_id_mask]
         ELSE ScanFilters(i + 1, name)

\* mutant of setup_axi_filter: the scan starts at the second entry
setup_axi_filter_SkipFirst(name) == ScanFilters(2, name)
\* (axi_id, axi_id_mask) after setup_axi_filter(name)
setup_axi_filter(name) == ScanFilters(1, name)

(***************************************************************************)
(* The command line.                                                       *)
(***************************************************************************)
\* strtol(s, &endp, 0) on the arguments of the model: the value, and whether
\* endp == s (no digit was consumed)
strtol(s) ==
    CASE s = "-1" -> [val |-> -1, none |-> FALSE]
      [] s = "0"  -> [val |-> 0, none |-> FALSE]
      [] s = "2"  -> [val |-> 2, none |-> FALSE]
      [] s = "4"  -> [val |-> 4, none |-> FALSE]
      [] s = "5"  -> [val |-> 5, none |-> FALSE]
      [] OTHER    -> [val |-> 0, none |-> TRUE]

\* the command lines the process is started with
ArgvSet == {
    <<>>, <<"--help">>, <<"5">>, <<"usb">>, <<"nonexistent">>,
    <<"-h", "2", "ipu1">>, <<"-1", "usb">>, <<"5", "usb">> }

\* line 327: if (delay > 4) return 1;
IntervalTooLong_Above5(d) == d > 5

IntervalTooLong(d) == d > 4

\* main, lines 308-337, on the command line a: what it leaves in pretty, delay
\* and the filter, and whether it returns (with which status) before perf_init
ParseArgs(a) ==
    LET help == Len(a) > 0 /\ a[1] = "--help"
        h    == Len(a) > 0 /\ a[1] = "-h"
        b    == IF h THEN Tail(a) ELSE a
        n    == IF Len(b) > 0 THEN strtol(b[1]) ELSE [val |-> 1, none |-> FALSE]
        f1   == IF Len(b) = 1 /\ n.none THEN setup_axi_filter(b[1])
                ELSE [axi_id |-> axi_id, axi_id_mask |-> axi_id_mask]
        f2   == IF Len(b) > 1 THEN setup_axi_filter(b[2]) ELSE f1
    IN  IF help THEN [ret |-> 0, pretty |-> pretty, delay |-> 1,
                      filter |-> [axi_id |-> axi_id, axi_id_mask |-> axi_id_mask]]
        ELSE IF IntervalTooLong(n.val)
             THEN [ret |-> 1, pretty |-> (pretty \/ h), delay |-> n.val,
                   filter |-> [axi_id |-> axi_id, axi_id_mask |-> axi_id_mask]]
             ELSE [ret |-> -1, pretty |-> (pretty \/ h),
                   delay |-> IF n.val <= 0 THEN 1 ELSE n.val, filter |-> f2]

(***************************************************************************)
(* The values the operations store.                                        *)
(***************************************************************************)
\* mmdc_init, line 95
ArmClear == 0
\* mutant of ArmReset: the flag is cleared, the reset is not asserted
ArmReset_NoReset == MADPCR0_CYC_OVF
\* mmdc_init, line 97: assert DBG_RST, write 1 to clear CYC_OVF
ArmReset == BitOr(MADPCR0_DBG_RST, MADPCR0_CYC_OVF)
\* mutant of ArmFrozen: the block is enabled and left running
ArmFrozen_NoFreeze == MADPCR0_DBG_EN
\* mmdc_init, line 99: deassert DBG_RST, enable DBG_EN and set PRF_FRZ
ArmFrozen == BitOr(MADPCR0_DBG_EN, MADPCR0_PRF_FRZ)
\* mutant of FilterSelect: the two shifts exchanged
FilterSelect_Swapped(mask, id) ==
    mask * Pow2(MADPCR1_PRF_AXI_ID_SHIFT) + id * Pow2(MADPCR1_PRF_AXI_ID_MASK_SHIFT)
\* mmdc_init, lines 101-102: the value stored in MADPCR1
FilterSelect(mask, id) ==
    mask * Pow2(MADPCR1_PRF_AXI_ID_MASK_SHIFT) + id * Pow2(MADPCR1_PRF_AXI_ID_SHIFT)
\* mutant of StartAssert: the flag is cleared, the reset is not asserted
StartAssert_NoReset(v) == BitOr(v, MADPCR0_CYC_OVF)
\* perf_start, lines 183 and 189: v |= DBG_RST | CYC_OVF
StartAssert(v) == BitOr(v, BitOr(MADPCR0_DBG_RST, MADPCR0_CYC_OVF))
\* perf_start, lines 184 and 190: v &= ~(DBG_RST | PRF_FRZ)
StartRelease_StillFrozen(v) == BitAndNot(v, MADPCR0_DBG_RST)

StartRelease(v) == BitAndNot(v, BitOr(MADPCR0_DBG_RST, MADPCR0_PRF_FRZ))
\* mutant of StopFreeze: the freeze bit is not set
StopFreeze_None(v) == v

StopFreeze_Reset(v) ==
    BitOr(v, BitOr(MADPCR0_PRF_FRZ, MADPCR0_DBG_RST))
\* perf_stop, lines 199 and 206: v |= PRF_FRZ
StopFreeze(v) == BitOr(v, MADPCR0_PRF_FRZ)
\* perf_stop, lines 200 and 207: v & CYC_OVF
StopSeesOverflow(v) == Has(v, MADPCR0_CYC_OVF)
\* mutant of PerfInitErr: only the first window is looked at
PerfInitErr_FirstOnly(m) == IF m[0] = "NULL" THEN -1 ELSE 0
\* perf_init, lines 170-171
PerfInitErr(m) == IF m[0] = "NULL" \/ m[1] = "NULL" THEN -1 ELSE 0

\* mmdc_read, lines 109-114: the k-th load and the field it is stored in
ReadOrder == <<"MADPSR0", "MADPSR1", "MADPSR2", "MADPSR3", "MADPSR4", "MADPSR5">>
StoreOrder == <<"cycles", "busy_cycles", "read_accesses", "write_accesses",
                "read_bytes", "write_bytes">>

\* perf_print, lines 215-222: the parts of the line, <<>> when nothing is printed
PrintParts_BothTested(m, e0, e1) ==
    IF m[0] # "NULL"
    THEN (IF e0.cycles # 0 THEN <<[tag |-> "MMDC0", st |-> e0]>> ELSE <<>>)
         \o (IF e1.cycles # 0 THEN <<[tag |-> "MMDC1", st |-> e1]>> ELSE <<>>)
    ELSE <<>>

PrintParts_Swapped(m, e0, e1) ==
    IF m[0] # "NULL"
    THEN <<[tag |-> "MMDC0", st |-> e1]>>
         \o (IF e1.cycles # 0 THEN <<[tag |-> "MMDC1", st |-> e0]>> ELSE <<>>)
    ELSE <<>>

PrintParts(m, e0, e1) ==
    IF m[0] # "NULL"
    THEN <<[tag |-> "MMDC0", st |-> e0]>>
         \o (IF e1.cycles # 0 THEN <<[tag |-> "MMDC1", st |-> e1]>> ELSE <<>>)
    ELSE <<>>

(***************************************************************************)
(* Formatting, lines 117-157.  The fields of a snapshot are uint32_t and   *)
(* the locals of mmdc_print_pretty are unsigned long, 32 bits wide on the  *)
(* target (ARMv7).  A 32-bit value is kept as two 16-bit halves, hi and    *)
(* lo, since the integers of the model checker end at 2^31 - 1.            *)
(***************************************************************************)
Half == 65536

\* the 32-bit value of a number below 2^31
U32(n) == [hi |-> n \div Half, lo |-> n % Half]

Zero32 == U32(0)

\* UINT32_MAX
Max32 == [hi |-> Half - 1, lo |-> Half - 1]

IsZero32(a) == a.hi = 0 /\ a.lo = 0

\* a + b in 32 bits: the carry out of the upper half is lost
Add32(a, b) ==
    LET s == a.lo + b.lo
    IN  [hi |-> (a.hi + b.hi + (s \div Half)) % Half, lo |-> s % Half]

\* a - 1 in 32 bits: 0 - 1 is UINT32_MAX
Dec32(a) ==
    IF a.lo > 0 THEN [hi |-> a.hi, lo |-> a.lo - 1]
    ELSE [hi |-> (a.hi + Half - 1) % Half, lo |-> Half - 1]

\* a / d and a % d, truncating, for a divisor 0 < d < 2^16: long division,
\* the lower half brought down eight bits at a time
DivMod32(a, d) ==
    LET qh == a.hi \div d
        r0 == a.hi % d
        n1 == (r0 * 256) + (a.lo \div 256)
        n2 == ((n1 % d) * 256) + (a.lo % 256)
    IN  [q |-> [hi |-> qh, lo |-> ((n1 \div d) * 256) + (n2 \div d)],
         r |-> n2 % d]

\* an unsigned division of the code; the divisors of the model are below 2^16
Div32(a, d) == DivMod32(a, d.lo).q

\* a < b and a <= b for two halves-pairs (hi may exceed 16 bits in a bound)
Less32(a, b) == a.hi < b.hi \/ (a.hi = b.hi /\ a.lo < b.lo)

Leq32(a, b) == a = b \/ Less32(a, b)

\* line 119
unit == <<"B", "KiB", "MiB", "GiB">>

\* lines 132 and 137: the condition of the scaling loops, with three units
\* above the byte
ScaleGoesOn_TwoUnits(count, u) == Less32(U32(1023), count) /\ u < 2

ScaleGoesOn_Above511(count, u) == Less32(U32(511), count) /\ u < 3

ScaleGoesOn(count, u) == Less32(U32(1023), count) /\ u < 3

\* lines 132-140: while (count > 1023 && unit < 3) { count /= 1024; unit++; }
RECURSIVE Scale(_, _)
Scale(count, u) ==
    IF ScaleGoesOn(count, u)
    THEN Scale(Div32(count, U32(1024)), u + 1)
    ELSE [count |-> count, unit |-> u]

\* lines 125 and 128: the mean size is computed only with accesses
MeanSizeGuard_None(accesses) == TRUE

MeanSizeGuard(accesses) == ~IsZero32(accesses)

\* lines 125-130: the mean size of an access, rounded up, 0 without accesses
MeanSize(count, accesses) ==
    IF MeanSizeGuard(accesses)
    THEN Div32(Dec32(Add32(count, accesses)), accesses)
    ELSE Zero32

\* printf %u and %lu: the decimal digits of a 32-bit value
RECURSIVE Decimal(_)
Decimal(a) ==
    LET dm == DivMod32(a, 10)
    IN  IF IsZero32(dm.q) THEN ToString(dm.r)
        ELSE Decimal(dm.q) \o ToString(dm.r)

\* a 32-bit value below 2^31 as a number
ToInt(a) == (a.hi * Half) + a.lo

\* n decimal places of r / c, for r < c: the digits as a number, and the rest
RECURSIVE Places(_, _, _)
Places(r, c, n) ==
    IF n = 0 THEN [q |-> 0, r |-> r]
    ELSE LET f == Places(r, c, n - 1)
         IN  [q |-> (f.q * 10) + ((10 * f.r) \div c), r |-> (10 * f.r) % c]

\* printf %.2f of 100.0 * b / c for c # 0: hundredths of a percent, rounded
\* to the nearest, a tie to the even one (the numbers of the model are small
\* enough for the double to be exact to that place: c below 2^31 / 10)
Hundredths(b, c) ==
    LET f == Places(b % c, c, 4)
        h == ((b \div c) * 10000) + f.q
    IN  IF 2 * f.r > c \/ (2 * f.r = c /\ h % 2 = 1) THEN h + 1 ELSE h

TwoPlaces(h) ==
    ToString(h \div 100) \o "." \o ToString((h % 100) \div 10) \o ToString(h % 10)

\* lines 143 and 153: (double)100.0 * st->busy_cycles / st->cycles.  The
\* division is one of doubles: by zero it gives a NaN (0/0) or an infinity
\* (x/0) and raises no signal
BusyPercent(busy_cycles, cycles) ==
    IF IsZero32(cycles)
    THEN IF IsZero32(busy_cycles) THEN "nan" ELSE "inf"
    ELSE TwoPlaces(Hundredths(ToInt(busy_cycles), ToInt(cycles)))

\* the divisions a call of mmdc_print performs by a divisor that is zero:
\* "int" ones (the process gets SIGFPE) and "double" ones (it does not)
ZeroDivisions(human, st) ==
    (IF IsZero32(st.cycles) THEN {"double"} ELSE {})
    \cup (IF human /\ \E n \in {st.read_accesses, st.write_accesses} :
                         MeanSizeGuard(n) /\ IsZero32(n)
          THEN {"int"} ELSE {})

\* lines 117-146: what mmdc_print_pretty prints
mmdc_print_pretty(tag, st) ==
    LET read_size == MeanSize(st.read_bytes, st.read_accesses)
        write_size == MeanSize(st.write_bytes, st.write_accesses)
        rd == Scale(st.read_bytes, 0)
        wr == Scale(st.write_bytes, 0)
        busy == BusyPercent(st.busy_cycles, st.cycles)
    IN  [tag |-> tag, busy |-> busy,
         read_count |-> rd.count, read_unit |-> unit[rd.unit + 1],
         read_size |-> read_size,
         write_count |-> wr.count, write_unit |-> unit[wr.unit + 1],
         write_size |-> write_size,
         text |-> tag \o " " \o busy \o "% busy "
                  \o Decimal(rd.count) \o " " \o unit[rd.unit + 1]
                  \o " reads (" \o Decimal(read_size) \o " B / access) "
                  \o Decimal(wr.count) \o " " \o unit[wr.unit + 1]
                  \o " writes (" \o Decimal(write_size) \o " B / access)"]

\* lines 148-157: what mmdc_print prints, by the mode
mmdc_print(human, tag, st) ==
    IF human THEN mmdc_print_pretty(tag, st)
    ELSE LET busy == BusyPercent(st.busy_cycles, st.cycles)
         IN  [tag |-> tag, busy |-> busy,
              text |-> tag \o " " \o busy \o "% busy "
                       \o Decimal(st.read_accesses) \o " reads ("
                       \o Decimal(st.read_bytes) \o " bytes) "
                       \o Decimal(st.write_accesses) \o " writes ("
                       \o Decimal(st.write_bytes) \o " bytes)"]

\* the snapshots handed to mmdc_print: the boundaries of the units, the
\* largest value of a field, no accesses, no cycles
FormatInputs ==
    [cycles : {Zero32, U32(100000000)},
     busy_cycles : {Zero32, U32(25000000)},
     read_accesses : {Zero32, U32(2), U32(10)},
     read_bytes : {Zero32, U32(640), U32(1023), U32(1024), U32(1048575),
                   U32(1048576), U32(1073741823), U32(1073741824), Max32},
     write_accesses : {Zero32, U32(5)},
     write_bytes : {U32(320), U32(5242880), Max32}]

(***************************************************************************)
(* Initial states.                                                         *)
(***************************************************************************)
\* what the device may hold when the process starts: its reset state, or what
\* an earlier run left behind (frozen with the overflow flag up, or running)
HwInit == {
    [cr |-> 0, fsel |-> 0, regs |-> ZeroRegs],
    [cr |-> BitOr(ArmFrozen, MADPCR0_CYC_OVF), fsel |-> FilterSelect(13311, 90),
     regs |-> [r \in Regs |-> 1]],
    [cr |-> MADPCR0_DBG_EN, fsel |-> 0,
     regs |-> [r \in Regs |-> IF r = "MADPSR0" THEN CounterMod - 1 ELSE 1]] }

InitCommon ==
    /\ pretty = FALSE
    /\ delay = 1
    /\ exit_code = -1
    /\ fd = "none"
    /\ err = 0
    /\ mmdc = [c \in Controllers |-> "NULL"]
    /\ window = [c \in Controllers |-> "unmapped"]
    /\ cur = 0
    /\ tmp = 0
    /\ k = 1
    /\ mmdc_end = [c \in Controllers |-> ZeroStats]
    /\ \E h \in HwInit :
          /\ cr = [c \in Controllers |-> h.cr]
          /\ fsel = [c \in Controllers |-> h.fsel]
          /\ cnt = [c \in Controllers |-> h.regs]
    /\ ovfl = {}
    /\ line = <<>>
    /\ ticks = 0
    /\ wlog = [c \in Controllers |-> <<>>]
    /\ interval = [c \in Controllers |-> ZeroRegs]
    /\ measuring = [c \in Controllers |-> FALSE]
    /\ wrapped = [c \in Controllers |-> FALSE]
    /\ started = [c \in Controllers |-> FALSE]
    /\ restarted = [c \in Controllers |-> FALSE]
    /\ stored = [c \in Controllers |-> FALSE]

\* the process at the entry of main
Init ==
    /\ driver = "main"
    /\ pc = "main"
    /\ argv \in ArgvSet
    /\ master = ""
    /\ axi_id = 0
    /\ axi_id_mask = 0
    /\ InitCommon

\* a caller of the operations, about to call perf_init with a filter selected
InitOps ==
    /\ driver = "ops"
    /\ pc = "perf_init"
    /\ argv = <<>>
    /\ master = ""
    /\ \E f \in {PassAll, setup_axi_filter("usb")} :
          axi_id = f.axi_id /\ axi_id_mask = f.axi_id_mask
    /\ InitCommon

\* a caller of setup_axi_filter: any name, after any earlier selection
InitFilter ==
    /\ driver = "filter"
    /\ pc = "filter"
    /\ argv = <<>>
    /\ master \in FilterNames \cup {"nonexistent", "USB", ""}
    /\ \E f \in {PassAll, setup_axi_filter("usb"), setup_axi_filter("hdmi")} :
          axi_id = f.axi_id /\ axi_id_mask = f.axi_id_mask
    /\ InitCommon

\* a caller of mmdc_print: either mode, any snapshot of FormatInputs
InitFormat ==
    /\ driver = "format"
    /\ pc = "format"
    /\ argv = <<>>
    /\ master = ""
    /\ axi_id = 0
    /\ axi_id_mask = 0
    /\ pretty \in BOOLEAN
    /\ delay = 1
    /\ exit_code = -1
    /\ fd = "none"
    /\ err = 0
    /\ mmdc = [c \in Controllers |-> "NULL"]
    /\ window = [c \in Controllers |-> "unmapped"]
    /\ cur = 0
    /\ tmp = 0
    /\ k = 1
    /\ \E st \in FormatInputs : mmdc_end = [c \in Controllers |-> st]
    /\ cr = [c \in Controllers |-> 0]
    /\ fsel = [c \in Controllers |-> 0]
    /\ cnt = [c \in Controllers |-> ZeroRegs]
    /\ ovfl = {}
    /\ line = <<>>
    /\ ticks = 0
    /\ wlog = [c \in Controllers |-> <<>>]
    /\ interval = [c \in Controllers |-> ZeroRegs]
    /\ measuring = [c \in Controllers |-> FALSE]
    /\ wrapped = [c \in Controllers |-> FALSE]
    /\ started = [c \in Controllers |-> FALSE]
    /\ restarted = [c \in Controllers |-> FALSE]
    /\ stored = [c \in Controllers |-> FALSE]

(***************************************************************************)
(* Steps shared by the actions.                                            *)
(***************************************************************************)
devVars == <<cr, fsel, cnt>>
histVars == <<wlog, interval, measuring, wrapped, started, restarted, stored>>

\* the program stores v in MADPCR0 of controller c
StoreCtrl(c, v) ==
    /\ cr' = [cr EXCEPT ![c] = CtrlAfterWrite(@, v)]
    /\ cnt' = [cnt EXCEPT ![c] = RegsAfterWrite(@, v)]

\* an operation is done with controller cur: on to the second one, or return
NextController(again, ret) ==
    IF cur = 0 THEN cur' = 1 /\ pc' = again
    ELSE cur' = 0 /\ pc' = ret

EnterStart ==
    /\ pc' = "start_ld1"
    /\ cur' = 0
    /\ ovfl' = {}
    /\ line' = <<>>

EnterStop ==
    /\ pc' = "stop_ld"
    /\ cur' = 0
    /\ ovfl' = {}

(***************************************************************************)
(* The device runs: one clock cycle, seen by every controller that counts. *)
(***************************************************************************)
Tick(kind) ==
    /\ pc \notin {"exited", "closed", "filter", "filter_ret"}
    /\ ticks < MaxTicks
    /\ \E c \in Controllers : Counting(cr[c]) \/ measuring[c]
    /\ ticks' = ticks + 1
    /\ cnt' = [c \in Controllers |->
                 IF Counting(cr[c]) THEN TickRegs(cnt[c], kind) ELSE cnt[c]]
    /\ cr' = [c \in Controllers |->
                 IF Counting(cr[c]) /\ Wraps(cnt[c])
                 THEN BitOr(cr[c], MADPCR0_CYC_OVF) ELSE cr[c]]
    /\ interval' = [c \in Controllers |->
                 IF measuring[c] THEN TickRegs(interval[c], kind) ELSE interval[c]]
    /\ wrapped' = [c \in Controllers |->
                 wrapped[c] \/ (measuring[c] /\ Counting(cr[c]) /\ Wraps(cnt[c]))]
    /\ UNCHANGED <<progVars, fsel, wlog, measuring, started, restarted, stored>>

(***************************************************************************)
(* main, lines 303-347.                                                    *)
(***************************************************************************)
\* lines 308-337: the command line
MainParseArgs ==
    /\ driver = "main"
    /\ pc = "main"
    /\ LET r == ParseArgs(argv)
       IN  /\ pretty' = r.pretty
           /\ delay' = r.delay
           /\ axi_id' = r.filter.axi_id
           /\ axi_id_mask' = r.filter.axi_id_mask
           /\ IF r.ret >= 0
              THEN pc' = "exited" /\ exit_code' = r.ret
              ELSE pc' = "perf_init" /\ exit_code' = exit_code
    /\ UNCHANGED <<driver, argv, master, fd, err, mmdc, window, cur, tmp, k,
                   mmdc_end, ovfl, line, ticks, devVars, histVars>>

\* lines 339-340: if (perf_init()) return 1;
MainCheckInit ==
    /\ driver = "main"
    /\ pc = "init_ret"
    /\ IF err # 0
       THEN pc' = "exited" /\ exit_code' = 1
       ELSE pc' = "loop" /\ exit_code' = exit_code
    /\ UNCHANGED <<driver, argv, master, pretty, delay, axi_id, axi_id_mask, fd,
                   err, mmdc, window, cur, tmp, k, mmdc_end, ovfl, line, ticks,
                   devVars, histVars>>

\* line 343: perf_start();
MainLoopStart ==
    /\ driver = "main"
    /\ pc = "loop"
    /\ EnterStart
    /\ UNCHANGED <<driver, argv, master, pretty, delay, axi_id, axi_id_mask,
                   exit_code, fd, err, mmdc, window, tmp, k, mmdc_end, ticks,
                   devVars, histVars>>

\* line 344: sleep(delay); the device runs meanwhile (Tick)
MainSleep ==
    /\ driver = "main"
    /\ pc = "start_ret"
    /\ pc' = "slept"
    /\ UNCHANGED <<driver, argv, master, pretty, delay, axi_id, axi_id_mask,
                   exit_code, fd, err, mmdc, window, cur, tmp, k, mmdc_end, ovfl,
                   line, ticks, devVars, histVars>>

\* line 345: perf_stop();
MainCallStop ==
    /\ driver = "main"
    /\ pc = "slept"
    /\ EnterStop
    /\ UNCHANGED <<driver, argv, master, pretty, delay, axi_id, axi_id_mask,
                   exit_code, fd, err, mmdc, window, tmp, k, mmdc_end, line, ticks,
                   devVars, histVars>>

\* line 346: perf_print(); and back to the head of the loop
MainCallPrint_StopOnOverflow ==
    /\ driver = "main"
    /\ pc = "stop_ret"
    /\ line' = PrintParts(mmdc, mmdc_end[0], mmdc_end[1])
    /\ pc' = IF ovfl # {} THEN "exited" ELSE "loop"
    /\ UNCHANGED <<driver, argv, master, pretty, delay, axi_id, axi_id_mask,
                   exit_code, fd, err, mmdc, window, cur, tmp, k, mmdc_end, ovfl,
                   ticks, devVars, histVars>>

MainCallPrint ==
    /\ driver = "main"
    /\ pc = "stop_ret"
    /\ line' = PrintParts(mmdc, mmdc_end[0], mmdc_end[1])
    /\ pc' = "loop"
    /\ UNCHANGED <<driver, argv, master, pretty, delay, axi_id, axi_id_mask,
                   exit_code, fd, err, mmdc, window, cur, tmp, k, mmdc_end, ovfl,
                   ticks, devVars, histVars>>

(***************************************************************************)
(* perf_init, lines 159-175, and mmdc_init, lines 86-105.                  *)
(***************************************************************************)
\* lines 161-165: open("/dev/mem"); on failure perf_init returns -1
PerfInitOpen(ok) ==
    /\ pc = "perf_init"
    /\ IF ok
       THEN fd' = "open" /\ err' = 0 /\ pc' = "mmap" /\ cur' = 0
       ELSE fd' = fd /\ err' = -1 /\ pc' = "init_ret" /\ cur' = cur
    /\ UNCHANGED <<driver, argv, master, pretty, delay, axi_id, axi_id_mask,
                   exit_code, mmdc, window, tmp, k, mmdc_end, ovfl, line, ticks,
                   devVars, histVars>>

\* lines 88-93: mmap of the window of controller cur; on failure NULL
MmdcInitMmap(ok) ==
    /\ pc = "mmap"
    /\ IF ok
       THEN /\ window' = [window EXCEPT ![cur] = "mapped"]
            /\ pc' = "arm1"
            /\ UNCHANGED <<mmdc, cur>>
       ELSE /\ mmdc' = [mmdc EXCEPT ![cur] = "NULL"]
            /\ NextController("mmap", "init_close")
            /\ UNCHANGED window
    /\ UNCHANGED <<driver, argv, master, pretty, delay, axi_id, axi_id_mask,
                   exit_code, fd, err, tmp, k, mmdc_end, ovfl, line, ticks,
                   devVars, histVars>>

\* one of the three stores to MADPCR0, lines 95, 97 and 99
ArmStore(at, v, next) ==
    /\ pc = at
    /\ StoreCtrl(cur, v)
    /\ wlog' = [wlog EXCEPT ![cur] = Append(@, [reg |-> "MADPCR0", val |-> v])]
    /\ pc' = next
    /\ UNCHANGED <<driver, argv, master, pretty, delay, axi_id, axi_id_mask,
                   exit_code, fd, err, mmdc, window, cur, tmp, k, mmdc_end, ovfl,
                   line, ticks, fsel, interval, measuring, wrapped, started, restarted,
                   stored>>

MmdcInitClear == ArmStore("arm1", ArmClear, "arm2")
MmdcInitReset == ArmStore("arm2", ArmReset, "arm3")
MmdcInitFreeze == ArmStore("arm3", ArmFrozen, "arm4")

\* lines 101-104: the store to MADPCR1, and return mem
MmdcInitFilter ==
    /\ pc = "arm4"
    /\ LET v == FilterSelect(axi_id_mask, axi_id)
       IN  /\ fsel' = [fsel EXCEPT ![cur] = v]
           /\ wlog' = [wlog EXCEPT ![cur] = Append(@, [reg |-> "MADPCR1", val |-> v])]
    /\ mmdc' = [mmdc EXCEPT ![cur] = "mem"]
    /\ NextController("mmap", "init_close")
    /\ UNCHANGED <<driver, argv, master, pretty, delay, axi_id, axi_id_mask,
                   exit_code, fd, err, window, tmp, k, mmdc_end, ovfl, line, ticks,
                   cr, cnt, interval, measuring, wrapped, started, restarted, stored>>

\* lines 170-174: err, close(fd), return err
PerfInitClose ==
    /\ pc = "init_close"
    /\ err' = PerfInitErr(mmdc)
    /\ fd' = "closed"
    /\ pc' = "init_ret"
    /\ UNCHANGED <<driver, argv, master, pretty, delay, axi_id, axi_id_mask,
                   exit_code, mmdc, window, cur, tmp, k, mmdc_end, ovfl, line, ticks,
                   devVars, histVars>>

(***************************************************************************)
(* perf_start, lines 177-192: for mmdc0, then for mmdc1.                   *)
(***************************************************************************)
\* lines 181/187 and the load of lines 183/189
PerfStartLoad1 ==
    /\ pc = "start_ld1"
    /\ IF mmdc[cur] # "NULL"
       THEN tmp' = cr[cur] /\ pc' = "start_st1" /\ cur' = cur
       ELSE tmp' = tmp /\ NextController("start_ld1", "start_ret")
    /\ UNCHANGED <<driver, argv, master, pretty, delay, axi_id, axi_id_mask,
                   exit_code, fd, err, mmdc, window, k, mmdc_end, ovfl, line, ticks,
                   devVars, histVars>>

\* the store of lines 183/189: assert reset, clear overflow flag
PerfStartStore1 ==
    /\ pc = "start_st1"
    /\ StoreCtrl(cur, StartAssert(tmp))
    /\ restarted' = [restarted EXCEPT ![cur] = measuring[cur] /\ cnt[cur] # ZeroRegs]
    /\ pc' = "start_ld2"
    /\ UNCHANGED <<driver, argv, master, pretty, delay, axi_id, axi_id_mask,
                   exit_code, fd, err, mmdc, window, cur, tmp, k, mmdc_end, ovfl,
                   line, ticks, fsel, wlog, interval, measuring, wrapped, started,
                   stored>>

\* the load of lines 184/190
PerfStartLoad2 ==
    /\ pc = "start_ld2"
    /\ tmp' = cr[cur]
    /\ pc' = "start_st2"
    /\ UNCHANGED <<driver, argv, master, pretty, delay, axi_id, axi_id_mask,
                   exit_code, fd, err, mmdc, window, cur, k, mmdc_end, ovfl, line,
                   ticks, devVars, histVars>>

\* the store of lines 184/190: the interval of controller cur begins here
PerfStartStore2 ==
    /\ pc = "start_st2"
    /\ StoreCtrl(cur, StartRelease(tmp))
    /\ interval' = [interval EXCEPT ![cur] = ZeroRegs]
    /\ measuring' = [measuring EXCEPT ![cur] = TRUE]
    /\ wrapped' = [wrapped EXCEPT ![cur] = FALSE]
    /\ started' = [started EXCEPT ![cur] = TRUE]
    /\ NextController("start_ld1", "start_ret")
    /\ UNCHANGED <<driver, argv, master, pretty, delay, axi_id, axi_id_mask,
                   exit_code, fd, err, mmdc, window, tmp, k, mmdc_end, ovfl, line,
                   ticks, fsel, wlog, restarted, stored>>

(***************************************************************************)
(* perf_stop, lines 194-211, and mmdc_read, lines 107-115.                 *)
(***************************************************************************)
\* lines 198/205 and the load of lines 199/206
PerfStopLoad ==
    /\ pc = "stop_ld"
    /\ IF mmdc[cur] # "NULL"
       THEN tmp' = cr[cur] /\ pc' = "stop_st" /\ cur' = cur
       ELSE tmp' = tmp /\ NextController("stop_ld", "stop_ret")
    /\ UNCHANGED <<driver, argv, master, pretty, delay, axi_id, axi_id_mask,
                   exit_code, fd, err, mmdc, window, k, mmdc_end, ovfl, line, ticks,
                   devVars, histVars>>

\* the store of lines 199/206: the interval of controller cur ends here
PerfStopStore ==
    /\ pc = "stop_st"
    /\ StoreCtrl(cur, StopFreeze(tmp))
    /\ measuring' = [measuring EXCEPT ![cur] = FALSE]
    /\ pc' = "stop_chk"
    /\ UNCHANGED <<driver, argv, master, pretty, delay, axi_id, axi_id_mask,
                   exit_code, fd, err, mmdc, window, cur, tmp, k, mmdc_end, ovfl,
                   line, ticks, fsel, wlog, interval, wrapped, started, restarted,
                   stored>>

\* lines 200-201/207-208: load MADPCR0, print "overflow N!" if CYC_OVF is up
PerfStopCheck ==
    /\ pc = "stop_chk"
    /\ ovfl' = IF StopSeesOverflow(cr[cur]) THEN ovfl \cup {cur} ELSE ovfl
    /\ k' = 1
    /\ pc' = "read"
    /\ UNCHANGED <<driver, argv, master, pretty, delay, axi_id, axi_id_mask,
                   exit_code, fd, err, mmdc, window, cur, tmp, mmdc_end, line, ticks,
                   devVars, histVars>>

\* one of the six loads of mmdc_read, stored in the snapshot of controller cur
MmdcRead ==
    /\ pc = "read"
    /\ mmdc_end' = [mmdc_end EXCEPT ![cur][StoreOrder[k]] = cnt[cur][ReadOrder[k]]]
    /\ stored' = [stored EXCEPT ![cur] = TRUE]
    /\ IF k < 6
       THEN k' = k + 1 /\ UNCHANGED <<pc, cur>>
       ELSE k' = 1 /\ NextController("stop_ld", "stop_ret")
    /\ UNCHANGED <<driver, argv, master, pretty, delay, axi_id, axi_id_mask,
                   exit_code, fd, err, mmdc, window, tmp, ovfl, line, ticks,
                   devVars, wlog, interval, measuring, wrapped, started, restarted>>

(***************************************************************************)
(* The operations called in any order (SpecOps).                           *)
(***************************************************************************)
\* the caller is between two operations
Idle == pc \in {"init_ret", "start_ret", "stop_ret", "print_ret"}

OpsCallStart ==
    /\ driver = "ops"
    /\ Idle
    /\ EnterStart
    /\ UNCHANGED <<driver, argv, master, pretty, delay, axi_id, axi_id_mask,
                   exit_code, fd, err, mmdc, window, tmp, k, mmdc_end, ticks,
                   devVars, histVars>>

OpsCallStop ==
    /\ driver = "ops"
    /\ Idle
    /\ EnterStop
    /\ UNCHANGED <<driver, argv, master, pretty, delay, axi_id, axi_id_mask,
                   exit_code, fd, err, mmdc, window, tmp, k, mmdc_end, line, ticks,
                   devVars, histVars>>

\* perf_print, lines 213-223
OpsCallPrint ==
    /\ driver = "ops"
    /\ Idle
    /\ line' = PrintParts(mmdc, mmdc_end[0], mmdc_end[1])
    /\ pc' = "print_ret"
    /\ UNCHANGED <<driver, argv, master, pretty, delay, axi_id, axi_id_mask,
                   exit_code, fd, err, mmdc, window, cur, tmp, k, mmdc_end, ovfl,
                   ticks, devVars, histVars>>

\* perf_close, lines 225-231; no operation is called after it
OpsCallClose ==
    /\ driver = "ops"
    /\ Idle
    /\ window' = [c \in Controllers |->
                    IF mmdc[c] # "NULL" THEN "released" ELSE window[c]]
    /\ pc' = "closed"
    /\ UNCHANGED <<driver, argv, master, pretty, delay, axi_id, axi_id_mask,
                   exit_code, fd, err, mmdc, cur, tmp, k, mmdc_end, ovfl, line,
                   ticks, devVars, histVars>>

(***************************************************************************)
(* setup_axi_filter called with a name (SpecFilter).                       *)
(***************************************************************************)
SetupAxiFilter ==
    /\ driver = "filter"
    /\ pc = "filter"
    /\ LET f == setup_axi_filter(master)
       IN  axi_id' = f.axi_id /\ axi_id_mask' = f.axi_id_mask
    /\ pc' = "filter_ret"
    /\ UNCHANGED <<driver, argv, master, pretty, delay, exit_code, fd, err, mmdc,
                   window, cur, tmp, k, mmdc_end, ovfl, line, ticks, devVars,
                   histVars>>

(***************************************************************************)
(* mmdc_print called with a snapshot (SpecFormat).  An integer division by *)
(* zero ends the process with SIGFPE before anything is printed.           *)
(***************************************************************************)
MmdcPrint ==
    /\ driver = "format"
    /\ pc = "format"
    /\ IF "int" \in ZeroDivisions(pretty, mmdc_end[0])
       THEN pc' = "killed" /\ line' = line
       ELSE /\ pc' = "format_ret"
            /\ line' = <<mmdc_print(pretty, "MMDC0", mmdc_end[0])>>
    /\ UNCHANGED <<driver, argv, master, pretty, delay, axi_id, axi_id_mask,
                   exit_code, fd, err, mmdc, window, cur, tmp, k, mmdc_end, ovfl,
                   ticks, devVars, histVars>>

(***************************************************************************)
(* The specifications.                                                     *)
(***************************************************************************)
Operations ==
    \/ \E ok \in BOOLEAN : PerfInitOpen(ok)
    \/ \E ok \in BOOLEAN : MmdcInitMmap(ok)
    \/ MmdcInitClear
    \/ MmdcInitReset
    \/ MmdcInitFreeze
    \/ MmdcInitFilter
    \/ PerfInitClose
    \/ PerfStartLoad1
    \/ PerfStartStore1
    \/ PerfStartLoad2
    \/ PerfStartStore2
    \/ PerfStopLoad
    \/ PerfStopStore
    \/ PerfStopCheck
    \/ MmdcRead
    \/ \E kind \in TrafficKinds : Tick(kind)

Next ==
    \/ MainParseArgs
    \/ MainCheckInit
    \/ MainLoopStart
    \/ MainSleep
    \/ MainCallStop
    \/ MainCallPrint
    \/ Operations

Spec == Init /\ [][Next]_vars

\* the steps of the process, as opposed to those of the device
Program ==
    \/ MainParseArgs
    \/ MainCheckInit
    \/ MainLoopStart
    \/ MainSleep
    \/ MainCallStop
    \/ MainCallPrint
    \/ \E ok \in BOOLEAN : PerfInitOpen(ok)
    \/ \E ok \in BOOLEAN : MmdcInitMmap(ok)
    \/ MmdcInitClear
    \/ MmdcInitReset
    \/ MmdcInitFreeze
    \/ MmdcInitFilter
    \/ PerfInitClose
    \/ PerfStartLoad1
    \/ PerfStartStore1
    \/ PerfStartLoad2
    \/ PerfStartStore2
    \/ PerfStopLoad
    \/ PerfStopStore
    \/ PerfStopCheck
    \/ MmdcRead

\* the process at the entry of main, started without arguments or with all
\* three of them
InitLive == Init /\ argv \in {<<>>, <<"-h", "2", "ipu1">>}

\* the process is scheduled: a statement that can be executed is executed
\* in the end, and sleep(delay) returns
SpecLive == InitLive /\ [][Next]_vars /\ WF_vars(Program)

NextOps ==
    \/ OpsCallStart
    \/ OpsCallStop
    \/ OpsCallPrint
    \/ OpsCallClose
    \/ Operations

SpecOps == InitOps /\ [][NextOps]_vars

NextFilter == SetupAxiFilter

SpecFilter == InitFilter /\ [][NextFilter]_vars

NextFormat == MmdcPrint

SpecFormat == InitFormat /\ [][NextFormat]_vars

(***************************************************************************)
(* Properties.                                                             *)
(***************************************************************************)
\* a snapshot whose fields hold the statistics registers r, as mmdc_read
\* documents them (MADPSR0 total cycles, ..., MADPSR5 total write bytes)
StatsOf(r) ==
    [cycles |-> r["MADPSR0"], busy_cycles |-> r["MADPSR1"],
     read_accesses |-> r["MADPSR2"], write_accesses |-> r["MADPSR3"],
     read_bytes |-> r["MADPSR4"], write_bytes |-> r["MADPSR5"]]

\* perf_start is between its two stores to MADPCR0 of controller c
Resetting(c) == cur = c /\ pc \in {"start_ld2", "start_st2"}

\* perf_stop has set freeze for controller c and is at or in its mmdc_read
Reading(c) == cur = c /\ pc \in {"stop_chk", "read"}

\* the latest perf_stop is past the mmdc_read of controller c
ReadDone(c) ==
    /\ mmdc[c] # "NULL"
    /\ \/ pc = "stop_ret"
       \/ c = 0 /\ cur = 1 /\ pc \in {"stop_ld", "stop_st", "stop_chk", "read"}

\* perf_stop is past its overflow check of controller c
CheckDone(c) == ReadDone(c) \/ (cur = c /\ pc = "read")

\* C1: the snapshot read by stop() holds exactly what the device saw since the
\* latest start() released the controller: while the interval runs the
\* counters are running (reset and freeze deasserted) and hold the
\* accumulation of this interval only, and the snapshot stop() has read is
\* that accumulation, also when start() was called twice in a row.
C1_SnapshotIsLatestInterval ==
    \A c \in Controllers :
        /\ (measuring[c] /\ ~Resetting(c)) =>
              (Counting(cr[c]) /\ cnt[c] = interval[c])
        /\ ReadDone(c) => mmdc_end[c] = StatsOf(interval[c])

\* C1 witness: start(); start(); stop() on controller 0, whose counters had
\* run on before the second start: of the three clock cycles since the first
\* start only the one after the second start is in the snapshot
C1_Witness ==
    /\ pc = "stop_ret"
    /\ restarted[0]
    /\ mmdc[1] = "NULL"
    /\ cr[1] = 0
    /\ ticks = MaxTicks
    /\ mmdc_end[0].cycles = 1
    /\ mmdc_end[0] = StatsOf(interval[0])

\* C2: in stop(), from the freeze store to the end of the six loads the
\* freeze bit is set and reset is deasserted, the counters keep the values
\* they had when the interval ended, every field stored so far equals its
\* register, and the finished snapshot equals the six registers.
C2_FrozenWhileRead ==
    \A c \in Controllers :
        /\ Reading(c) =>
              /\ Has(cr[c], MADPCR0_PRF_FRZ)
              /\ ~Has(cr[c], MADPCR0_DBG_RST)
              /\ cnt[c] = interval[c]
              /\ pc = "read" =>
                    \A j \in 1..(k - 1) :
                        mmdc_end[c][StoreOrder[j]] = StatsOf(cnt[c])[StoreOrder[j]]
        /\ ReadDone(c) => mmdc_end[c] = StatsOf(cnt[c])

\* C2 witness: the sixth load of controller 1 is next, after a write access
C2_Witness ==
    /\ pc = "read"
    /\ cur = 1
    /\ k = 6
    /\ cnt[1]["MADPSR3"] = 1
    /\ cnt[1]["MADPSR5"] = AccessBytes % CounterMod

\* C3: if the cycle counter of a controller wrapped between start() and
\* stop(), the stop() of that cycle reports the overflow of that controller.
C3_OverflowReported ==
    \A c \in Controllers : (CheckDone(c) /\ wrapped[c]) => c \in ovfl

\* C4: arm stores control = 0, control = {reset, overflow-clear}, control =
\* {enable, freeze}, filter-select = (identifier_mask << 16) | identifier, in
\* this order and nothing else, and leaves the controller enabled, frozen,
\* out of reset and not counting until the first start().
C4_ArmWrites ==
    \A c \in Controllers :
        /\ mmdc[c] = "mem" =>
              wlog[c] = << [reg |-> "MADPCR0", val |-> 0],
                           [reg |-> "MADPCR0", val |-> 2 + 8],
                           [reg |-> "MADPCR0", val |-> 1 + 4],
                           [reg |-> "MADPCR1", val |-> axi_id_mask * 65536 + axi_id] >>
        /\ (mmdc[c] = "mem" /\ ~started[c] /\ ~Resetting(c)) =>
              /\ Has(cr[c], MADPCR0_DBG_EN)
              /\ Has(cr[c], MADPCR0_PRF_FRZ)
              /\ ~Has(cr[c], MADPCR0_DBG_RST)
              /\ ~Counting(cr[c])

\* C4 witness: both controllers armed with the filter of "usb", none started
C4_Witness ==
    /\ pc = "init_ret"
    /\ mmdc[0] = "mem"
    /\ mmdc[1] = "mem"
    /\ axi_id = 90
    /\ fsel[1] = 13311 * 65536 + 90
    /\ cr[1] = 5

\* C5 (as claimed): stop() on a controller that no start() has released is
\* rejected: nothing is stored in the controller's snapshot.
C5_StopBeforeStartRejected ==
    \A c \in Controllers : ~started[c] => ~stored[c]

\* C5 (amended): stop() makes no check of the state. On an armed controller
\* that no start() has released it leaves freeze set and loads the six
\* statistics registers, which the reset of arm left at zero, into the
\* stored snapshot: the snapshot is overwritten with the registers' zeros.
C5_StopBeforeStartReadsZeros ==
    \A c \in Controllers :
        (stored[c] /\ ~started[c]) =>
            /\ Has(cr[c], MADPCR0_PRF_FRZ)
            /\ cnt[c] = ZeroRegs
            /\ mmdc_end[c] = ZeroStats
            /\ ReadDone(c) => mmdc_end[c] = StatsOf(cnt[c])

\* C5 witness: stop() has returned, both snapshots stored, nothing started,
\* with the filter of "usb" armed
C5_Witness ==
    /\ pc = "stop_ret"
    /\ stored[0]
    /\ stored[1]
    /\ ~started[0]
    /\ ~started[1]
    /\ wlog[0][4].val = 13311 * 65536 + 90

\* C6: when only the first window is mapped the process goes on in
\* single-controller mode: it does not exit.
C6_SingleControllerRuns ==
    (fd = "closed" /\ window[0] = "mapped" /\ window[1] = "unmapped")
        => pc # "exited"

\* the open of /dev/mem failed: perf_init returned -1 without a descriptor
OpenFailed == fd = "none" /\ err = -1

\* perf_init is past its two mmaps and one of the windows is not mapped
MapFailed == fd = "closed" /\ \E c \in Controllers : window[c] # "mapped"

\* C7: if /dev/mem cannot be opened or a window cannot be mapped, perf_init
\* reports failure, the process exits with status 1, and no start(), stop()
\* or print ever happens.
C7_InitFailureIsFatal ==
    (OpenFailed \/ MapFailed) =>
        /\ err # 0
        /\ pc \in {"init_ret", "exited"}
        /\ pc = "exited" => exit_code = 1
        /\ \A c \in Controllers : ~started[c] /\ ~stored[c] /\ ~measuring[c]
        /\ line = <<>>
        /\ ovfl = {}

\* C7 witness: the second mmap failed and the process has exited with 1
C7_Witness ==
    /\ pc = "exited"
    /\ exit_code = 1
    /\ window[0] = "mapped"
    /\ window[1] = "unmapped"
    /\ fd = "closed"

\* C8: when the process has exited, no window is still mapped.
C8_UnmappedBeforeExit ==
    pc = "exited" => \A c \in Controllers : window[c] # "mapped"

\* C9: after setup_axi_filter(master) the active filter is the pair of the
\* catalog entry named master, for every name of the catalog (the names are
\* unique), and the pass-all pair (0, 0) for any other name, whatever the
\* filter was before.
C9_FilterLookup ==
    /\ \A i, j \in 1..Len(filters) : filters[i].name = filters[j].name => i = j
    /\ pc = "filter_ret" =>
          /\ \A i \in 1..Len(filters) :
                filters[i].name = master =>
                    /\ axi_id = filters[i].axi_id
                    /\ axi_id_mask = filters[i].axi_id_mask
          /\ master \notin FilterNames => (axi_id = 0 /\ axi_id_mask = 0)

\* C9 witness: the lookup of "arm-s0", the first entry, has returned
C9_Witness ==
    /\ pc = "filter_ret"
    /\ master = "arm-s0"
    /\ axi_id = 0
    /\ axi_id_mask = 14343

\* the arguments that strtol reads as a number
NumberArgs == {"-1", "0", "2", "4", "5"}

\* the filter name the command line a asks for, by the usage
\* imx6_ddrstat [-h] [interval] [filter]; "" when it asks for none
RequestedFilter(a) ==
    LET b == IF Len(a) > 0 /\ a[1] = "-h" THEN Tail(a) ELSE a
    IN  IF Len(b) >= 2 THEN b[2]
        ELSE IF Len(b) = 1 /\ b[1] \notin NumberArgs THEN b[1]
        ELSE ""

\* (identifier_mask << 16) | identifier of the catalog entry named n, 0 if none
FilterWord(n) ==
    IF n \in FilterNames
    THEN LET e == CHOOSE e \in {filters[i] : i \in 1..Len(filters)} : e.name = n
         IN  e.axi_id_mask * 65536 + e.axi_id
    ELSE 0

\* C10: in every state after perf_init has succeeded, MADPCR1 of both
\* controllers holds (identifier_mask << 16) | identifier of the filter the
\* command line selected, 0 when it selected none or an unknown name.
C10_FilterLatched ==
    (fd = "closed" /\ err = 0) =>
        \A c \in Controllers : fsel[c] = FilterWord(RequestedFilter(argv))

\* C10 witness: in the sleep of a cycle, with the filter of "ipu1" selected
\* after -h and an interval, on a device that held another filter before
C10_Witness ==
    /\ pc = "slept"
    /\ argv = <<"-h", "2", "ipu1">>
    /\ fsel[0] = 16359 * 65536 + 4
    /\ fsel[1] = 16359 * 65536 + 4
    /\ stored[1]

(***************************************************************************)
(* Formatting (SpecFormat).                                                *)
(***************************************************************************)
\* the snapshot handed to mmdc_print
FormatSt == mmdc_end[0]

\* mmdc_print has returned in human mode
HumanDone == pc = "format_ret" /\ pretty

\* a * 1024, not cut to 32 bits: the upper half grows
Times1024(a) ==
    [hi |-> (a.hi * 1024) + (a.lo \div 64), lo |-> (a.lo % 64) * 1024]

\* a * 1024^n
RECURSIVE TimesPow1024(_, _)
TimesPow1024(a, n) == IF n = 0 THEN a ELSE TimesPow1024(Times1024(a), n - 1)

\* scaled and the unit u are what steps <= 3 truncating divisions by 1024 of
\* original give, each taken because the value before it exceeded 1023
ScaledRight(original, scaled, u) ==
    \E steps \in 0..3 :
       /\ u = unit[steps + 1]
       /\ scaled.hi = 0
       /\ scaled.lo <= 1023
       /\ Leq32(TimesPow1024(scaled, steps), original)
       /\ Less32(original, TimesPow1024(U32(scaled.lo + 1), steps))
       /\ steps > 0 => Leq32(TimesPow1024(U32(1), steps), original)

\* C11: in human mode every 32-bit byte total is printed as the value and the
\* unit that at most three truncating divisions by 1024 give: the value is in
\* 0..1023, the unit is the steps-th of B, KiB, MiB, GiB, and
\* value * 1024^steps <= total < (value + 1) * 1024^steps; the read total and
\* the write total are each scaled from their own field.
C11_UnitScaling ==
    HumanDone =>
       /\ ScaledRight(FormatSt.read_bytes, line[1].read_count, line[1].read_unit)
       /\ ScaledRight(FormatSt.write_bytes, line[1].write_count,
                      line[1].write_unit)

\* the largest read total is printed as 3 GiB next to a write total in bytes
C11_Witness ==
    /\ HumanDone
    /\ FormatSt.read_bytes = Max32
    /\ FormatSt.write_bytes = U32(320)
    /\ line[1].read_count = U32(3)
    /\ line[1].read_unit = "GiB"
    /\ line[1].write_count = U32(320)
    /\ line[1].write_unit = "B"

\* the least n with n * d >= a, for 0 < d < 2^16: the quotient, one more
\* when the division leaves a rest (the sum a + d - 1 is never formed)
Ceiling32(a, d) ==
    LET dm == DivMod32(a, d.lo)
    IN  IF dm.r = 0 THEN dm.q ELSE Add32(dm.q, U32(1))

\* what a mean size should be for total bytes in accesses
MeanRight(total, accesses) ==
    IF IsZero32(accesses) THEN Zero32 ELSE Ceiling32(total, accesses)

\* C12: in human mode the bytes per access printed for reads and for writes
\* are ceil(total_bytes / access_count) when the count is above zero and 0
\* when it is zero, for all 32-bit values, also when
\* total_bytes + access_count - 1 does not fit in 32 bits.
C12_MeanSizeIsCeiling ==
    HumanDone =>
       /\ line[1].read_size = MeanRight(FormatSt.read_bytes, FormatSt.read_accesses)
       /\ line[1].write_size =
             MeanRight(FormatSt.write_bytes, FormatSt.write_accesses)

\* mmdc_print was called with a snapshot that has no cycles
ZeroCyclesCall == pc # "format" /\ IsZero32(FormatSt.cycles)

\* C13: for every snapshot with cycles == 0, in raw and in human mode,
\* formatting completes and prints a line, no division by zero is performed
\* and the process is not terminated.
C13_NoDivisionByZero ==
    ZeroCyclesCall =>
       /\ pc = "format_ret"
       /\ Len(line) = 1
       /\ ZeroDivisions(pretty, FormatSt) = {}

\* C13 as the code has it: with cycles == 0, in raw and in human mode,
\* formatting completes and prints a line and the process is not terminated;
\* no integer division by zero is performed, the division of doubles by
\* cycles is, and the busy percentage printed is nan (busy_cycles == 0) or
\* inf (busy_cycles # 0).
C13_ZeroCyclesFormats ==
    ZeroCyclesCall =>
       /\ pc = "format_ret"
       /\ Len(line) = 1
       /\ ZeroDivisions(pretty, FormatSt) = {"double"}
       /\ line[1].busy = IF IsZero32(FormatSt.busy_cycles) THEN "nan" ELSE "inf"

\* human mode, no cycles, no read accesses, busy cycles counted: inf is printed
C13_Witness ==
    /\ ZeroCyclesCall
    /\ pretty
    /\ IsZero32(FormatSt.read_accesses)
    /\ ~IsZero32(FormatSt.busy_cycles)
    /\ Len(line) = 1
    /\ line[1].busy = "inf"
    /\ line[1].read_size = Zero32

\* the snapshot of the worked example
ExampleSt ==
    [cycles |-> U32(100000000), busy_cycles |-> U32(25000000),
     read_accesses |-> U32(10), read_bytes |-> U32(640),
     write_accesses |-> U32(5), write_bytes |-> U32(320)]

ExampleDone == HumanDone /\ FormatSt = ExampleSt

\* C16: the snapshot cycles=100000000, busy_cycles=25000000,
\* read_accesses=10, read_bytes=640, write_accesses=5, write_bytes=320 is
\* printed in human mode, after the tag, as "25.00% busy 0 KiB reads (64 B /
\* access) 0 B writes (64 B / access)": read total 0 KiB, write total 0 B.
C16_ExampleAsStated ==
    ExampleDone =>
       /\ line[1].text = "MMDC0 25.00% busy 0 KiB reads (64 B / access) "
                         \o "0 B writes (64 B / access)"
       /\ line[1].read_count = Zero32 /\ line[1].read_unit = "KiB"
       /\ line[1].write_count = Zero32 /\ line[1].write_unit = "B"
       /\ line[1].read_size = U32(64) /\ line[1].write_size = U32(64)

\* C16 as the code has it: the same snapshot is printed as "25.00% busy 640 B
\* reads (64 B / access) 320 B writes (64 B / access)": neither total exceeds
\* 1023, so both stay in bytes, and the mean sizes are 64 bytes.
C16_ExampleRendering ==
    ExampleDone =>
       /\ line[1].text = "MMDC0 25.00% busy 640 B reads (64 B / access) "
                         \o "320 B writes (64 B / access)"
       /\ line[1].read_count = U32(640) /\ line[1].read_unit = "B"
       /\ line[1].write_count = U32(320) /\ line[1].write_unit = "B"
       /\ line[1].read_size = U32(64) /\ line[1].write_size = U32(64)

\* the example has been printed, a quarter of the cycles busy
C16_Witness == ExampleDone /\ Len(line) = 1 /\ line[1].busy = "25.00"

(***************************************************************************)
(* The counters under the operations (Spec).                               *)
(***************************************************************************)
\* the program is inside mmdc_init / perf_stop
ArmPcs == {"mmap", "arm1", "arm2", "arm3", "arm4"}

StopPcs == {"stop_ld", "stop_st", "stop_chk", "read"}

\* a step of the program: the device's clock does not advance in it
ProgramStep == ticks' = ticks

\* C14: start() is the only operation that zeroes the hardware counters: no
\* step of arm() and no step of stop() changes any of the six counters of a
\* controller.
C14_OnlyStartZeroes ==
    [][ProgramStep /\ pc \in ArmPcs \cup StopPcs => cnt' = cnt]_vars

\* C14 as the code has it: the counters of a controller are changed by the
\* program only in the store of arm() that asserts reset (line 97) and in
\* the store of start() that asserts reset (lines 180, 186), and both leave
\* all six at zero; every other step of arm(), start() and stop() leaves the
\* six counters as they were.
C14_ArmAndStartZero ==
    [][ProgramStep =>
          \A c \in Controllers :
             IF cur = c /\ pc \in {"arm2", "start_st1"} /\ pc' # pc
             THEN cnt'[c] = ZeroRegs
             ELSE cnt'[c] = cnt[c]]_vars

\* arm() has pulsed reset on controller 0, whose counters were not zero
\* (those of controller 1, not yet armed, still are not)
C14_Witness ==
    /\ pc = "arm3"
    /\ cur = 0
    /\ cnt[0] = ZeroRegs
    /\ cnt[1] # ZeroRegs
    /\ Len(wlog[0]) = 2
    /\ wlog[0][2].val = ArmReset

(***************************************************************************)
(* The interval of the command line (Spec).                                *)
(***************************************************************************)
\* the arguments of the command line a after an -h
AfterMode(a) == IF Len(a) > 0 /\ a[1] = "-h" THEN Tail(a) ELSE a

\* by the usage imx6_ddrstat [-h] [interval] [filter]: a gives an interval
HasInterval(a) == Len(AfterMode(a)) > 0 /\ AfterMode(a)[1] \in NumberArgs

\* the interval a gives
IntervalOf(a) == strtol(AfterMode(a)[1]).val

\* nothing of perf_init has happened
NotInitialized ==
    /\ fd = "none"
    /\ \A c \in Controllers :
          window[c] = "unmapped" /\ wlog[c] = <<>> /\ ~started[c]

\* C15: an interval argument that is not in 1..4 is rejected: the program
\* exits without initializing the controllers or running a sampling cycle.
C15_OutOfRangeRejected ==
    HasInterval(argv) /\ IntervalOf(argv) \notin 1..4 =>
       pc \in {"main", "exited"} /\ NotInitialized

\* C15 as the code has it: an interval above 4 is rejected, the program exits
\* with status 1 without initializing the controllers; an interval of 0 or
\* less is not rejected, it is replaced by 1 second and the program goes on
\* to initialize and sample; an interval in 1..4 is kept.
C15_IntervalHandling ==
    HasInterval(argv) =>
       IF IntervalOf(argv) > 4
       THEN /\ pc \in {"main", "exited"}
            /\ NotInitialized
            /\ pc = "exited" => exit_code = 1
       ELSE pc # "main" =>
               /\ delay = IF IntervalOf(argv) <= 0 THEN 1 ELSE IntervalOf(argv)
               /\ pc = "exited" => err # 0

\* the interval -1 was given and the program sleeps in its first cycle, for
\* one second
C15_Witness ==
    /\ argv = <<"-1", "usb">>
    /\ pc = "slept"
    /\ delay = 1
    /\ measuring[0]
    /\ measuring[1]

(***************************************************************************)
(* The sampling cycle (Spec).                                              *)
(***************************************************************************)
StartPcs == {"start_ld1", "start_st1", "start_ld2", "start_st2"}

\* the place of pc in the body of the loop, lines 343-346
Phase ==
    CASE pc = "loop" -> 0
      [] pc \in StartPcs -> 1
      [] pc = "start_ret" -> 2
      [] pc = "slept" -> 3
      [] pc \in StopPcs -> 4
      [] pc = "stop_ret" -> 5
      [] OTHER -> -1

Running(c) == measuring[c]

\* controller c has been frozen and read in this cycle
Sampled(c) == ~measuring[c] /\ mmdc_end[c] = StatsOf(interval[c])

\* what has happened to the two controllers at each place of a cycle
CycleOrder ==
    /\ pc \in StartPcs /\ cur = 0 => ~Running(0) /\ ~Running(1)
    /\ pc \in StartPcs /\ cur = 1 => Running(0) /\ ~Running(1)
    /\ pc \in {"start_ret", "slept"} => Running(0) /\ Running(1)
    /\ pc \in {"stop_ld", "stop_st"} /\ cur = 0 => Running(0) /\ Running(1)
    /\ pc \in {"stop_chk", "read"} /\ cur = 0 => ~Running(0) /\ Running(1)
    /\ pc \in {"stop_ld", "stop_st"} /\ cur = 1 => Sampled(0) /\ Running(1)
    /\ pc \in {"stop_chk", "read"} /\ cur = 1 => Sampled(0) /\ ~Running(1)
    /\ pc = "stop_ret" => Sampled(0) /\ Sampled(1)
    /\ pc = "loop" /\ started[0] =>
          /\ Sampled(0) /\ Sampled(1)
          /\ Len(line) \in {1, 2}
          /\ line[1] = [tag |-> "MMDC0", st |-> mmdc_end[0]]
          /\ Len(line) = 2 => line[2] = [tag |-> "MMDC1", st |-> mmdc_end[1]]

\* a step inside the loop stays at its place or moves to the next one, and
\* inside an operation never goes back from controller 1 to controller 0
CycleStep ==
    Phase >= 0 =>
       /\ Phase' = Phase \/ Phase' = (Phase + 1) % 6
       /\ Phase' = Phase /\ Phase \in {1, 4} => cur' >= cur

\* C17: every sampling cycle goes start controller 0, start controller 1, one
\* sleep, freeze and read controller 0, freeze and read controller 1, print,
\* in this order; no controller is started again before both snapshots of
\* the cycle are read and printed, and every printed snapshot is the one
\* stop() read in the same cycle.
C17_CycleOrder == []CycleOrder /\ [][CycleStep]_vars

\* a cycle has ended with both parts printed, reads counted on controller 0
C17_Witness ==
    /\ pc = "loop"
    /\ Len(line) = 2
    /\ line[1].st.read_bytes # 0
    /\ line[2].st.cycles # 0
    /\ ticks = MaxTicks

(***************************************************************************)
(* Overflow and the continuation of sampling (SpecLive).                   *)
(***************************************************************************)
\* perf_stop has just reported an overflow of controller c
OverflowSeen(c) == cur = c /\ pc = "read" /\ c \in ovfl

\* the cycle of that report has come to its end: the snapshot of c is read
\* and the line is printed
CycleEnded(c) ==
    /\ pc = "loop"
    /\ c \in ovfl
    /\ Sampled(c)
    /\ Len(line) >= 1
    /\ line[1] = [tag |-> "MMDC0", st |-> mmdc_end[0]]

\* the next perf_start has returned
NextStarted == pc = "start_ret" /\ ovfl = {} /\ Running(0) /\ Running(1)

\* C18: an overflow does not interrupt sampling: when stop() reports an
\* overflow for a controller, that controller's snapshot is still read and
\* the line of the cycle is still printed, and the start() of the next cycle
\* follows; once initialization has succeeded the loop is never left.
C18_OverflowDoesNotStop ==
    /\ \A c \in Controllers : OverflowSeen(c) ~> CycleEnded(c)
    /\ (\E c \in Controllers : CycleEnded(c)) ~> NextStarted
    /\ [][Phase >= 0 => Phase' >= 0]_vars

\* an overflow of controller 0 was reported and its cycle has been printed
C18_Witness == CycleEnded(0) /\ wrapped[0] /\ mmdc_end[0].cycles = 0

(***************************************************************************)
(* What perf_print prints (SpecOps).                                       *)
(***************************************************************************)
\* perf_print has returned, called by the caller of the operations
Printed == driver = "ops" /\ pc = "print_ret"

\* the part of the line for controller c, <<>> if there is none
PartOf(c) ==
    SelectSeq(line, LAMBDA p : p.tag = IF c = 0 THEN "MMDC0" ELSE "MMDC1")

\* C19: the part of the second controller is printed if and only if the
\* first controller is mapped and the stored snapshot of the second has
\* cycles # 0; the part of the first is printed whenever it is mapped, also
\* with cycles = 0 in its snapshot; with the first controller not mapped
\* nothing is printed for either.
C19_PrintRule ==
    Printed =>
       /\ PartOf(0) # <<>> <=> mmdc[0] # "NULL"
       /\ PartOf(1) # <<>> <=> mmdc[0] # "NULL" /\ mmdc_end[1].cycles # 0
       /\ mmdc[0] = "NULL" => line = <<>>
       /\ \A c \in Controllers :
             PartOf(c) # <<>> => Len(PartOf(c)) = 1 /\ PartOf(c)[1].st = mmdc_end[c]

\* the first controller is printed with cycles = 0 in its snapshot (its
\* cycle counter wrapped), next to the second
C19_Witness ==
    /\ Printed
    /\ mmdc[0] # "NULL"
    /\ mmdc_end[0].cycles = 0
    /\ wrapped[0]
    /\ Len(line) = 2
    /\ line[2].st.cycles # 0

(***************************************************************************)
(* The control register between the operations (SpecOps).                  *)
(***************************************************************************)
\* C20: for each mapped controller, whenever it is not inside the reset pulse
\* of a start(), enable is set, reset is deasserted, and freeze is set
\* exactly when the controller is Armed or Frozen (not measuring) and clear
\* exactly when it is Running; once arm() has begun, reset is asserted only
\* inside arm() and inside start() of that controller.
C20_ControlInvariant ==
    \A c \in Controllers :
       /\ mmdc[c] # "NULL" /\ ~Resetting(c) =>
             /\ Has(cr[c], MADPCR0_DBG_EN)
             /\ ~Has(cr[c], MADPCR0_DBG_RST)
             /\ Has(cr[c], MADPCR0_PRF_FRZ) <=> ~Running(c)
       /\ wlog[c] # <<>> /\ Has(cr[c], MADPCR0_DBG_RST) =>
             cur = c /\ (pc = "arm3" \/ Resetting(c))

\* between two operations, after a stop and a second start: both controllers
\* Running again, enabled and neither frozen nor in reset
C20_Witness ==
    /\ Idle
    /\ pc = "start_ret"
    /\ stored[0]
    /\ Running(0)
    /\ Running(1)
    /\ cr[0] = MADPCR0_DBG_EN
    /\ cr[1] = MADPCR0_DBG_EN

====
